---- MODULE Spec2Model ----
(***************************************************************************)
(* RapidVideOCR (src/rapid_videocr/rapid_videocr.py): the key-frame scan   *)
(* get_key_frames, the OCR pass run_ocr / remove_invalid and the subtitle  *)
(* consolidation get_subtitles, as called in sequence by __call__.         *)
(*                                                                         *)
(* A frame is a sequence of pixel rows (one grey value per row); a Python  *)
(* dict is a sequence of records in insertion order; a string is a         *)
(* sequence of character codes (0 is the line separator); a float number   *)
(* of seconds is an integer number of milliseconds.  The tqdm progress bar *)
(* (pbar, update_step) only displays and is left out.                      *)
(***************************************************************************)
EXTENDS Integers, Sequences, FiniteSets, TLC

VARIABLES
    vr,                 \* the video: frame index -> frame (VideoReader)
    fps,                \* frames per second of the video
    time_start,         \* config['time_start']
    time_end,           \* config['time_end']
    self_batch_size,    \* self.batch_size
    rapid_ocr,          \* self.rapid_ocr: the results it can return
    pc,                 \* position of __call__
    start_idx, end_idx, \* the scan range returned by _get_range_frame
    key_frames,         \* get_key_frames: dict key -> raw crop
    duplicate_frames,   \* get_key_frames / get_subtitles: dict key -> indices
    batch_size,         \* get_key_frames: the current window
    cur_idx, next_idx,  \* get_key_frames: reference index, next index to scan
    is_cur_idx_change,  \* get_key_frames: the reference must be recomputed
    cur_crop_frame,     \* get_key_frames: raw crop of the reference
    cur_frame,          \* get_key_frames: background-suppressed reference
    ocr_pos,            \* run_ocr: number of key frames already recognised
    frames_ocr_res,     \* run_ocr: the recognised texts, in key order
    invalid_keys,       \* run_ocr: keys with no recognised text
    sub_cur_idx,        \* get_subtitles: cur_idx
    sub_next_idx,       \* get_subtitles: next_idx
    sub_invalid_keys,   \* get_subtitles: invalid_keys (positions merged away)
    extract_pos,        \* get_subtitles: position of the output loop
    extract_result,     \* get_subtitles: the output entries
    ocr_log,            \* history: what RapidOCR returned for each key frame
    first_run           \* history: the first get_subtitles call, once it is repeated

vars == <<vr, fps, time_start, time_end, self_batch_size, rapid_ocr, pc, start_idx,
          end_idx, key_frames, duplicate_frames, batch_size, cur_idx,
          next_idx, is_cur_idx_change, cur_crop_frame, cur_frame,
          ocr_pos, frames_ocr_res, invalid_keys, sub_cur_idx, sub_next_idx,
          sub_invalid_keys, extract_pos, extract_result, ocr_log, first_run>>

inputVars == <<vr, fps, time_start, time_end, self_batch_size, rapid_ocr>>
rangeVars == <<start_idx, end_idx>>
scanVars  == <<key_frames, batch_size, cur_idx, next_idx, is_cur_idx_change,
               cur_crop_frame, cur_frame>>
ocrVars   == <<ocr_pos, frames_ocr_res, invalid_keys, ocr_log>>
subVars   == <<sub_cur_idx, sub_next_idx, sub_invalid_keys, extract_pos,
               extract_result>>

(***************************************************************************)
(* Bounds of the model and constants of the program.                       *)
(***************************************************************************)
MaxFrames == 5          \* number of frames of the longest video
MaxBatch == 2           \* largest explicit self.batch_size
MaxUnderrun == 2        \* how far below 0 a scan that never ends is followed
RerunFrames == 4        \* number of frames of the longest video consolidated twice

DefaultBatchSize == 100 \* self.batch_size = 100
error_thr == 1          \* config['error_thr']
binary_thr == 127       \* _select_threshold: threshold = 127
y_start == 1            \* _get_crop_range: crop_y_start
y_end == 3              \* _get_crop_range: crop_y_end
StrSimilarNum == 6      \* self.str_similar_ratio = 0.6, numerator
StrSimilarDen == 10     \* self.str_similar_ratio = 0.6, denominator

(***************************************************************************)
(* Python helpers.                                                         *)
(***************************************************************************)
Min(a, b) == IF a < b THEN a ELSE b
Max(a, b) == IF a > b THEN a ELSE b

\* list(range(a, b))
Range(a, b) == IF b > a THEN [i \in 1..(b - a) |-> a + i - 1] ELSE <<>>

\* seq[:k], with Python's meaning of a negative k
PySliceTo(seq, k) ==
    IF k >= 0 THEN SubSeq(seq, 1, Min(k, Len(seq)))
    ELSE SubSeq(seq, 1, Max(Len(seq) + k, 0))

SeqToSet(seq) == {seq[i] : i \in 1..Len(seq)}

\* dict helpers: a dict is a sequence of records [key, val] in insertion order
DictKeys(d) == [i \in 1..Len(d) |-> d[i].key]
HasKey(d, k) == \E i \in 1..Len(d) : d[i].key = k
PosOf(d, k) == CHOOSE i \in 1..Len(d) : d[i].key = k
DictGet(d, k) == d[PosOf(d, k)].val

\* d[k] = xs, which drops what the list of k held
SetDefaultAssign(d, k, xs) ==
    IF HasKey(d, k)
    THEN [d EXCEPT ![PosOf(d, k)].val = xs]
    ELSE Append(d, [key |-> k, val |-> xs])

\* d.setdefault(k, []).extend(xs)
SetDefaultExtend(d, k, xs) ==
    IF HasKey(d, k)
    THEN [d EXCEPT ![PosOf(d, k)].val = @ \o xs]
    ELSE Append(d, [key |-> k, val |-> xs])

\* if k not in d: d[k] = v
SetIfAbsent(d, k, v) ==
    IF HasKey(d, k) THEN d ELSE Append(d, [key |-> k, val |-> v])

RECURSIVE Insert(_, _)
Insert(x, sorted) ==
    IF sorted = <<>> THEN <<x>>
    ELSE IF x <= Head(sorted) THEN <<x>> \o sorted
    ELSE <<Head(sorted)>> \o Insert(x, Tail(sorted))

\* list.sort()
RECURSIVE Sort(_)
Sort(seq) == IF seq = <<>> THEN <<>> ELSE Insert(Head(seq), Sort(Tail(seq)))

(***************************************************************************)
(* The collaborators of utils.py, as the specification describes them.     *)
(***************************************************************************)
\* the frame images of the model: a background row and two subtitle rows
FrameImages == {<<128, 40, 40>>, <<128, 40, 200>>, <<128, 200, 200>>}

\* frame[y_start:y_end, :, :]
Crop(frame) == SubSeq(frame, y_start + 1, y_end)

\* ProcessImg.remove_bg: binarisation against binary_thr
remove_bg(crop) == [i \in 1..Len(crop) |-> IF crop[i] > binary_thr THEN 1 ELSE 0]

\* the distance score of two background-suppressed crops: sum of squares
L2Score(a, b) ==
    LET sq(i) == (a[i] - b[i]) * (a[i] - b[i])
        RECURSIVE sum(_)
        sum(i) == IF i = 0 THEN 0 ELSE sq(i) + sum(i - 1)
    IN  sum(Len(a))

\* calc_l2_dis_frames, one candidate: TRUE is "duplicate"
calc_l2_dis_frames(ref, cand) == L2Score(ref, cand) <= error_thr

\* convert_frame_to_time: seconds = index / fps as <<h, m, s, ms>>
convert_frame_to_time(idx, f) ==
    LET total == (idx * 1000) \div f
    IN  <<total \div 3600000, (total \div 60000) % 60,
          (total \div 1000) % 60, total % 1000>>

\* calc_str_similar(a, b) is
\* 2 * (longest common subsequence) / (len(a) + len(b))
RECURSIVE LCS(_, _)
LCS(a, b) ==
    IF a = <<>> \/ b = <<>> THEN 0
    ELSE IF Head(a) = Head(b) THEN 1 + LCS(Tail(a), Tail(b))
    ELSE Max(LCS(Tail(a), b), LCS(a, Tail(b)))

\* the ratio of calc_str_similar(a, b) as <<numerator, denominator>>
calc_str_similar(a, b) == <<2 * LCS(a, b), Len(a) + Len(b)>>

\* a test that lets a ratio equal to self.str_similar_ratio pass
ReachesRatio(r) == r[1] * StrSimilarDen >= StrSimilarNum * r[2]

\* str_ratio > self.str_similar_ratio
ExceedsRatio(r) == r[1] * StrSimilarDen > StrSimilarNum * r[2]

calc_str_similar_gt(a, b) == ExceedsRatio(calc_str_similar(a, b))

\* what RapidOCR may recognise in a key frame: a sequence of text lines
OcrResults == { <<>>,
                << <<1, 1, 1>> >>,
                << <<1, 1, 2>> >>,
                << <<1, 1>>, <<2>> >> }

\* a result whose ratio with the text 1 1 2 is 6 / 10, the threshold itself
ThresholdResults == { << <<1, 1, 2>>, <<3, 3, 3>> >> }

(***************************************************************************)
(* Pure parts of rapid_videocr.py.                                         *)
(***************************************************************************)
\* a time string "H:M:S" / "M:S" as its numeric parts, seconds in ms
TimeParts(time_str) == Len(time_str) \in {2, 3}

\* convert_time_to_frame where it does not raise
convert_time_to_frame(time_str, f) ==
    IF time_str = <<>> THEN 0
    ELSE LET ms == IF Len(time_str) = 3
                   THEN time_str[1] * 3600000 + time_str[2] * 60000 + time_str[3]
                   ELSE time_str[1] * 60000 + time_str[2]
         IN  (ms * f) \div 1000

\* convert_time_to_frame raises ValueError
ConvertRaises(time_str) == time_str # <<>> /\ ~TimeParts(time_str)

\* _get_range_frame: end_idx
RangeEnd(num_frames, f) ==
    IF time_end # <<>> THEN convert_time_to_frame(time_end, f) ELSE num_frames - 1

\* _get_range_frame: the range is rejected
RangeRaises(s, e) == e < s

\* batch_size = end_idx - 1 if self.batch_size > end_idx else self.batch_size
InitBatchSize(e, bs) == IF bs > e THEN e - 1 ELSE bs

\* next_idx at the start of the scan
InitNextIdx(s) == 1

\* next_batch_idxs[np.logical_not(compare_result)]
DissimilarIdxs(ref, batch) ==
    SelectSeq(batch, LAMBDA i : ~calc_l2_dis_frames(ref, remove_bg(Crop(vr[i]))))

\* next_batch_idxs[:first_dissimilar_idx - cur_idx]
SimilarPart(batch, first, cur) == PySliceTo(batch, first - cur)

\* if next_idx != end_idx and next_idx + batch_size > end_idx: ...
ClampBatch(nxt, bs, e) == IF nxt # e /\ nxt + bs > e THEN e - nxt ELSE bs

\* '\n'.join(rec_res)
RECURSIVE JoinLines(_)
JoinLines(lines) ==
    IF Len(lines) = 1 THEN lines[1]
    ELSE lines[1] \o <<0>> \o JoinLines(Tail(lines))

\* remove_invalid dropping as many runs as there are invalid keys, by position
remove_invalid_by_count(d, invalid) == SubSeq(d, 1, Len(d) - Len(invalid))

\* remove_invalid
remove_invalid(d, invalid) == SelectSeq(d, LAMBDA e : e.key \notin SeqToSet(invalid))

(***************************************************************************)
(* Initial states.                                                         *)
(***************************************************************************)
\* the time string whose frame index is k at f frames per second
TimeStr(k, f) ==
    LET ms == (k * 1000 + f - 1) \div f
    IN  IF k % 2 = 0 THEN <<0, 0, ms>> ELSE <<0, ms>>

FpsSet == {3}
BatchSizes == (1..MaxBatch) \cup {DefaultBatchSize}

\* a video of n frames and an OCR engine that returns one of results
InitWithOcr(n, results) ==
    /\ rapid_ocr = results
    /\ vr \in [0..(n - 1) -> FrameImages]
    /\ fps \in FpsSet
    /\ time_start \in {<<>>, <<7>>} \cup {TimeStr(k, fps) : k \in 1..(n - 1)}
    /\ time_end \in {<<>>} \cup {TimeStr(k, fps) : k \in 0..n}
    /\ self_batch_size \in BatchSizes
    /\ pc = "call"
    \* not assigned yet: 0, FALSE or the empty sequence
    /\ start_idx = 0 /\ end_idx = 0
    /\ key_frames = <<>> /\ duplicate_frames = <<>>
    /\ batch_size = 0 /\ cur_idx = 0 /\ next_idx = 0
    /\ is_cur_idx_change = FALSE
    /\ cur_crop_frame = <<>> /\ cur_frame = <<>>
    /\ ocr_pos = 0 /\ frames_ocr_res = <<>> /\ invalid_keys = <<>>
    /\ sub_cur_idx = 0 /\ sub_next_idx = 0 /\ sub_invalid_keys = <<>>
    /\ extract_pos = 0 /\ extract_result = <<>>
    /\ ocr_log = <<>>
    /\ first_run = [done |-> FALSE, merges |-> 0, runs |-> <<>>, result |-> <<>>]

InitWith(n) == InitWithOcr(n, OcrResults)

Init == \E n \in 1..MaxFrames : InitWith(n)

(***************************************************************************)
(* __call__ up to get_key_frames.                                          *)
(***************************************************************************)
get_num_frames == Cardinality(DOMAIN vr)

\* start_idx, end_idx = self._get_range_frame(fps, num_frames)
GetRangeFrame ==
    /\ pc = "call"
    /\ IF ConvertRaises(time_start) \/ ConvertRaises(time_end)
       THEN /\ pc' = "error"
            /\ UNCHANGED rangeVars
       ELSE LET s == convert_time_to_frame(time_start, fps)
                e == RangeEnd(get_num_frames, fps)
            IN  IF RangeRaises(s, e)
                THEN /\ pc' = "error"
                     /\ UNCHANGED rangeVars
                ELSE /\ pc' = "get_key_frames"
                     /\ start_idx' = s
                     /\ end_idx' = e
    /\ UNCHANGED <<inputVars, first_run, scanVars, duplicate_frames, ocrVars, subVars>>

\* get_key_frames, up to the loop
GetKeyFramesInit ==
    /\ pc = "get_key_frames"
    /\ pc' = "scan"
    /\ key_frames' = <<>>
    /\ duplicate_frames' = <<>>
    /\ batch_size' = InitBatchSize(end_idx, self_batch_size)
    /\ cur_idx' = start_idx
    /\ next_idx' = InitNextIdx(start_idx)
    /\ is_cur_idx_change' = TRUE
    /\ UNCHANGED <<inputVars, first_run, rangeVars, cur_crop_frame, cur_frame, ocrVars, subVars>>

\* the loop condition of get_key_frames
ScanGuard == next_idx + batch_size <= end_idx

\* the raw crop and the reference used by this iteration; RefFrameOfStart
\* takes the reference from the first frame of the range whatever cur_idx is
RefCrop == IF is_cur_idx_change THEN Crop(vr[cur_idx]) ELSE cur_crop_frame
RefFrameOfStart ==
    IF is_cur_idx_change THEN remove_bg(Crop(vr[start_idx])) ELSE cur_frame
RefFrame == IF is_cur_idx_change THEN remove_bg(Crop(vr[cur_idx])) ELSE cur_frame

\* one iteration of the loop of get_key_frames
KeyFramesStep ==
    /\ pc = "scan"
    /\ ScanGuard
    /\ next_idx >= -MaxUnderrun
    /\ LET next_batch_idxs == Range(next_idx, next_idx + batch_size)
           dissimilar_idxs == DissimilarIdxs(RefFrame, next_batch_idxs)
       IN  /\ cur_crop_frame' = RefCrop
           /\ cur_frame' = RefFrame
           /\ IF dissimilar_idxs = <<>>
              THEN /\ next_idx' = next_idx + batch_size
                   /\ duplicate_frames' =
                          SetDefaultExtend(duplicate_frames, cur_idx, next_batch_idxs)
                   /\ key_frames' = SetIfAbsent(key_frames, cur_idx, RefCrop)
                   /\ cur_idx' = cur_idx
                   /\ is_cur_idx_change' = FALSE
              ELSE LET first_dissimilar_idx == dissimilar_idxs[1]
                   IN  /\ duplicate_frames' =
                              SetDefaultExtend(duplicate_frames, cur_idx,
                                  SimilarPart(next_batch_idxs, first_dissimilar_idx, cur_idx))
                       /\ key_frames' = SetIfAbsent(key_frames, cur_idx, RefCrop)
                       /\ cur_idx' = first_dissimilar_idx
                       /\ next_idx' = first_dissimilar_idx + 1
                       /\ is_cur_idx_change' = TRUE
           /\ batch_size' = ClampBatch(next_idx', batch_size, end_idx)
    /\ pc' = "scan"
    /\ UNCHANGED <<inputVars, first_run, rangeVars, ocrVars, subVars>>

\* return key_frames, duplicate_frames; run_ocr up to its loop
KeyFramesReturn ==
    /\ pc = "scan"
    /\ ~ScanGuard
    /\ pc' = "run_ocr"
    /\ ocr_pos' = 0
    /\ frames_ocr_res' = <<>>
    /\ invalid_keys' = <<>>
    /\ UNCHANGED <<inputVars, first_run, rangeVars, scanVars, duplicate_frames, subVars, ocr_log>>

ScanNext ==
    \/ GetRangeFrame
    \/ GetKeyFramesInit
    \/ KeyFramesStep
    \/ KeyFramesReturn

\* the scan alone; the interpreter keeps executing the loop
ScanFairSpec == Init /\ [][ScanNext]_vars /\ WF_vars(ScanNext)

(***************************************************************************)
(* run_ocr, remove_invalid and get_subtitles.                              *)
(***************************************************************************)
\* one iteration of the loop of run_ocr: rec_res is what RapidOCR returns
RunOcrStep ==
    /\ pc = "run_ocr"
    /\ ocr_pos < Len(key_frames)
    /\ \E rec_res \in rapid_ocr :
         LET key == key_frames[ocr_pos + 1].key
         IN  /\ IF rec_res = <<>>
                THEN /\ invalid_keys' = Append(invalid_keys, key)
                     /\ UNCHANGED frames_ocr_res
                ELSE /\ frames_ocr_res' = Append(frames_ocr_res, JoinLines(rec_res))
                     /\ UNCHANGED invalid_keys
             /\ ocr_log' = Append(ocr_log, [key |-> key, rec_res |-> rec_res])
    /\ ocr_pos' = ocr_pos + 1
    /\ UNCHANGED <<inputVars, first_run, rangeVars, scanVars, duplicate_frames, subVars, pc>>

\* return frames_ocr_res, invalid_keys; duplicate_frames = remove_invalid(...)
RemoveInvalid ==
    /\ pc = "run_ocr"
    /\ ocr_pos = Len(key_frames)
    /\ duplicate_frames' = remove_invalid(duplicate_frames, invalid_keys)
    /\ pc' = "get_subtitles"
    /\ UNCHANGED <<inputVars, first_run, rangeVars, scanVars, ocrVars, subVars>>

\* get_subtitles, up to the sweep
GetSubtitlesInit ==
    /\ pc = "get_subtitles"
    /\ sub_invalid_keys' = <<>>
    /\ sub_cur_idx' = 0
    /\ sub_next_idx' = 1
    /\ pc' = "sweep"
    /\ UNCHANGED <<inputVars, first_run, rangeVars, scanVars, duplicate_frames, ocrVars,
                   extract_pos, extract_result>>

\* keys = list(duplicate_frames)
keys == DictKeys(duplicate_frames)

\* cur_idx of a sweep that moves on to nxt after a merge too
SweepCurAlwaysNext(cur, nxt, similar) == nxt

\* cur_idx after comparing position nxt with position cur
SweepCur(cur, nxt, similar) == IF similar THEN cur ELSE nxt

\* one iteration of the sweep of get_subtitles
SweepStep ==
    /\ pc = "sweep"
    /\ sub_next_idx < Len(frames_ocr_res)
    /\ LET cur_rec == frames_ocr_res[sub_cur_idx + 1]
           next_rec == frames_ocr_res[sub_next_idx + 1]
       IN  IF calc_str_similar_gt(cur_rec, next_rec)
           THEN LET cur_key == keys[sub_cur_idx + 1]
                    similar_idxs == DictGet(duplicate_frames, keys[sub_next_idx + 1])
                IN  /\ duplicate_frames' =
                           [duplicate_frames EXCEPT
                               ![PosOf(duplicate_frames, cur_key)].val = @ \o similar_idxs]
                    /\ sub_invalid_keys' = Append(sub_invalid_keys, sub_next_idx)
                    /\ sub_cur_idx' = SweepCur(sub_cur_idx, sub_next_idx, TRUE)
           ELSE /\ sub_cur_idx' = SweepCur(sub_cur_idx, sub_next_idx, FALSE)
                /\ UNCHANGED <<duplicate_frames, sub_invalid_keys>>
    /\ sub_next_idx' = sub_next_idx + 1
    /\ UNCHANGED <<inputVars, first_run, rangeVars, scanVars, ocrVars, extract_pos,
                   extract_result, pc>>

\* extract_result = []
SweepDone ==
    /\ pc = "sweep"
    /\ ~(sub_next_idx < Len(frames_ocr_res))
    /\ extract_result' = <<>>
    /\ extract_pos' = 0
    /\ pc' = "extract"
    /\ UNCHANGED <<inputVars, first_run, rangeVars, scanVars, duplicate_frames, ocrVars,
                   sub_cur_idx, sub_next_idx, sub_invalid_keys>>

\* a skip test that never skips
SkippedNever(i, invalid) == FALSE

\* if i in invalid_keys: continue
Skipped(i, invalid) == i \in SeqToSet(invalid)

\* one iteration of the output loop of get_subtitles; v[0] of an empty list
\* raises IndexError
ExtractStep ==
    /\ pc = "extract"
    /\ extract_pos < Len(duplicate_frames)
    /\ LET i == extract_pos
           k == duplicate_frames[i + 1].key
           v == Sort(duplicate_frames[i + 1].val)
       IN  IF Skipped(i, sub_invalid_keys)
           THEN /\ extract_pos' = i + 1
                /\ UNCHANGED <<duplicate_frames, extract_result, pc>>
           ELSE /\ duplicate_frames' = [duplicate_frames EXCEPT ![i + 1].val = v]
                /\ IF v = <<>>
                   THEN /\ pc' = "error"
                        /\ UNCHANGED <<extract_pos, extract_result>>
                   ELSE /\ extract_result' = Append(extract_result,
                               [key |-> k,
                                start_time |-> convert_frame_to_time(v[1], fps),
                                end_time |-> convert_frame_to_time(v[Len(v)], fps),
                                text |-> frames_ocr_res[i + 1]])
                        /\ extract_pos' = i + 1
                        /\ UNCHANGED pc
    /\ UNCHANGED <<inputVars, first_run, rangeVars, scanVars, ocrVars, sub_cur_idx,
                   sub_next_idx, sub_invalid_keys>>

\* return extract_result
SubtitlesReturn ==
    /\ pc = "extract"
    /\ extract_pos = Len(duplicate_frames)
    /\ pc' = "done"
    /\ UNCHANGED <<inputVars, first_run, rangeVars, scanVars, duplicate_frames, ocrVars, subVars>>

Next ==
    \/ GetRangeFrame
    \/ GetKeyFramesInit
    \/ KeyFramesStep
    \/ KeyFramesReturn
    \/ RunOcrStep
    \/ RemoveInvalid
    \/ GetSubtitlesInit
    \/ SweepStep
    \/ SweepDone
    \/ ExtractStep
    \/ SubtitlesReturn

Spec == Init /\ [][Next]_vars

(***************************************************************************)
(* Properties.                                                             *)
(***************************************************************************)
\* get_key_frames has just returned key_frames, duplicate_frames
Returned == pc = "run_ocr" /\ ocr_pos = 0

\* the scan range satisfies the precondition endIdx > startIdx
ValidRange == pc \notin {"call", "error"} /\ end_idx > start_idx

\* the duplicate-index list of key k, empty when k has no run
RunVal(d, k) == IF HasKey(d, k) THEN DictGet(d, k) ELSE <<>>

\* all keys and all duplicate indices of the runs, with repetitions
RECURSIVE AllIndices(_)
AllIndices(d) ==
    IF d = <<>> THEN <<>>
    ELSE <<d[1].key>> \o d[1].val \o AllIndices(Tail(d))

\* frame j is classified duplicate against reference frame i
Duplicate(i, j) ==
    calc_l2_dis_frames(remove_bg(Crop(vr[i])), remove_bg(Crop(vr[j])))

\* the batch of the next iteration and its distinct indices
Batch == Range(next_idx, next_idx + batch_size)
Distinct == DissimilarIdxs(RefFrame, Batch)

\* this step is an iteration of the scan loop
ScanIteration == pc = "scan" /\ pc' = "scan" /\ ScanGuard

\* C1: when get_key_frames returns for a range with endIdx > startIdx, the
\* run keys and the duplicate indices together are exactly
\* startIdx..endIdx-1 and no index occurs twice.
C1_Partition ==
    (Returned /\ ValidRange) =>
        LET all == AllIndices(duplicate_frames)
        IN  /\ SeqToSet(all) = start_idx..(end_idx - 1)
            /\ Len(all) = Cardinality(SeqToSet(all))

\* C2: an iteration whose batch holds a distinct frame, d being the first,
\* appends exactly next..d-1 to cur's run and sets cur = d, next = d + 1.
C2_MixedBatchStep ==
    [][(ScanIteration /\ ValidRange /\ Distinct # <<>>) =>
        LET d == Distinct[1]
        IN  /\ RunVal(duplicate_frames', cur_idx) =
                   RunVal(duplicate_frames, cur_idx) \o Range(next_idx, d)
            /\ cur_idx' = d
            /\ next_idx' = d + 1]_vars

\* C3: when get_key_frames returns, every duplicate index of a run was
\* classified duplicate against the run's key, and every key but the first
\* was classified distinct against the key of the preceding run.
C3_ThresholdCorrect ==
    (Returned /\ ValidRange) =>
        /\ \A r \in 1..Len(duplicate_frames) :
               \A i \in SeqToSet(duplicate_frames[r].val) :
                   Duplicate(duplicate_frames[r].key, i)
        /\ \A r \in 2..Len(duplicate_frames) :
               ~Duplicate(duplicate_frames[r - 1].key, duplicate_frames[r].key)

\* C4: in every state of the scan, for every startIdx >= 0, each run's
\* duplicate indices are key+1, key+2, ... without a gap.
C4_MonotonicRuns ==
    (pc \in {"scan", "run_ocr"} /\ ValidRange) =>
        \A r \in 1..Len(duplicate_frames) :
            LET run == duplicate_frames[r]
            IN  run.val = Range(run.key + 1, run.key + 1 + Len(run.val))

\* C5: when get_key_frames returns, startIdx and the last reference are
\* keys of the mapping, every key frame image is the raw crop at its key,
\* and key_frames and duplicate_frames have the same keys in the same order.
C5_MappingComplete ==
    (Returned /\ ValidRange) =>
        /\ HasKey(key_frames, start_idx) /\ HasKey(duplicate_frames, start_idx)
        /\ HasKey(key_frames, cur_idx) /\ HasKey(duplicate_frames, cur_idx)
        /\ \A r \in 1..Len(key_frames) :
               key_frames[r].val = Crop(vr[key_frames[r].key])
        /\ DictKeys(key_frames) = DictKeys(duplicate_frames)

\* C6: for every range with endIdx > startIdx the scan loop eventually
\* ends, with next >= endIdx.
C6_Termination ==
    (pc = "scan" /\ end_idx > start_idx) ~> (pc = "run_ocr" /\ next_idx >= end_idx)

\* C7: a range with endIdx <= startIdx never gets past _get_range_frame.
C7_InvalidRangeFailsFast ==
    pc \notin {"call", "error"} => end_idx > start_idx

\* a time <<h, m, s, ms>> in milliseconds
TimeMs(t) == ((t[1] * 60 + t[2]) * 60 + t[3]) * 1000 + t[4]

MinOf(S) == CHOOSE x \in S : \A y \in S : x <= y
MaxOf(S) == CHOOSE x \in S : \A y \in S : x >= y

\* the positions of the surviving runs that produce an output entry
OutputPositions ==
    SelectSeq(Range(0, Len(duplicate_frames)),
              LAMBDA i : i \notin SeqToSet(sub_invalid_keys))

\* position p and the positions merged into it
MergeGroup(p) ==
    {q \in p..(Len(duplicate_frames) - 1) :
        \A r \in (p + 1)..q : r \in SeqToSet(sub_invalid_keys)}

\* the key and the duplicate indices of position q (counted from 0)
RunIndices(d, q) == {d[q + 1].key} \cup SeqToSet(d[q + 1].val)

\* this step of the sweep merges position sub_next_idx into sub_cur_idx
MergeStep ==
    /\ pc = "sweep" /\ pc' = "sweep"
    /\ sub_next_idx < Len(frames_ocr_res)
    /\ calc_str_similar_gt(frames_ocr_res[sub_cur_idx + 1],
                           frames_ocr_res[sub_next_idx + 1])

\* C8: a merge puts the key and all duplicate indices of run[nextPos] into
\* run[curPos] and invalidates nextPos; the entry of a merged group has the
\* text of its first position and spans the minimum and the maximum index
\* over the runs of the group, keys included.
C8_MergeContent ==
    /\ [][MergeStep =>
            /\ RunIndices(duplicate_frames, sub_next_idx)
                   \subseteq SeqToSet(duplicate_frames'[sub_cur_idx + 1].val)
            /\ sub_next_idx \in SeqToSet(sub_invalid_keys')]_vars
    /\ [](pc = "done" =>
            \A j \in 1..Len(extract_result) :
                LET p == OutputPositions[j]
                    idx == UNION {RunIndices(duplicate_frames, q) : q \in MergeGroup(p)}
                IN  Cardinality(MergeGroup(p)) > 1 =>
                        /\ extract_result[j].text = frames_ocr_res[p + 1]
                        /\ extract_result[j].start_time =
                               convert_frame_to_time(MinOf(idx), fps)
                        /\ extract_result[j].end_time =
                               convert_frame_to_time(MaxOf(idx), fps))

\* C9: in the output of the pipeline every entry has startTime <= endTime
\* and the entries are strictly increasing by startTime.
C9_TimestampOrder ==
    pc = "done" =>
        /\ \A i \in 1..Len(extract_result) :
               TimeMs(extract_result[i].start_time) <= TimeMs(extract_result[i].end_time)
        /\ \A i \in 1..Len(extract_result) : \A j \in (i + 1)..Len(extract_result) :
               TimeMs(extract_result[i].start_time) < TimeMs(extract_result[j].start_time)

\* C10: no output entry belongs to a key whose recognised text is empty,
\* and the text of the entry of key k is the text recognised in key frame k.
C10_TextsAligned ==
    pc \in {"extract", "done"} =>
        \A j \in 1..Len(extract_result) :
            \E l \in 1..Len(ocr_log) :
                /\ ocr_log[l].key = extract_result[j].key
                /\ ocr_log[l].rec_res # <<>>
                /\ extract_result[j].text = JoinLines(ocr_log[l].rec_res)

\* C10 witness: a key frame without text precedes one with another text,
\* and the later one has its entry in the finished output
C10_Witness ==
    /\ pc = "done"
    /\ \E l \in 1..Len(ocr_log) : \E m \in (l + 1)..Len(ocr_log) :
           /\ ocr_log[l].rec_res = <<>>
           /\ ocr_log[m].rec_res # <<>>
           /\ \E j \in 1..Len(extract_result) :
                  extract_result[j].key = ocr_log[m].key
    /\ \E l \in 1..Len(ocr_log) : \E m \in 1..Len(ocr_log) :
           /\ ocr_log[l].rec_res # <<>>
           /\ ocr_log[m].rec_res # <<>>
           /\ ocr_log[l].rec_res # ocr_log[m].rec_res

(***************************************************************************)
(* get_subtitles called again on its own output.                           *)
(***************************************************************************)
\* the runs that produced an output entry, as get_subtitles left them
SurvivingRuns ==
    [j \in 1..Len(OutputPositions) |-> duplicate_frames[OutputPositions[j] + 1]]

\* get_subtitles(texts of the entries, runs of the entries, fps)
Rerun ==
    /\ pc = "done"
    /\ ~first_run.done
    /\ first_run' = [done |-> TRUE, merges |-> Len(sub_invalid_keys),
                     runs |-> SurvivingRuns, result |-> extract_result]
    /\ duplicate_frames' = SurvivingRuns
    /\ frames_ocr_res' = [j \in 1..Len(extract_result) |-> extract_result[j].text]
    /\ pc' = "get_subtitles"
    /\ UNCHANGED <<inputVars, rangeVars, scanVars, ocr_pos, invalid_keys, ocr_log,
                   subVars>>

RerunInit == \E n \in 1..RerunFrames : InitWithOcr(n, OcrResults \cup ThresholdResults)

RerunNext == Next \/ Rerun

RerunSpec == RerunInit /\ [][RerunNext]_vars

\* C11: get_subtitles on the texts and index sets of its own output entries
\* merges nothing, fails nowhere and returns the same entries.
C11_Idempotent ==
    first_run.done =>
        /\ pc # "error"
        /\ sub_invalid_keys = <<>> \/ pc = "get_subtitles"
        /\ pc = "done" =>
               /\ extract_result = first_run.result
               /\ duplicate_frames = first_run.runs

\* C11 witness: the first call merged runs and returned several entries,
\* and the second call has returned
C11_Witness ==
    /\ pc = "done"
    /\ first_run.done
    /\ first_run.merges > 0
    /\ Len(extract_result) >= 2

\* C12: get_subtitles returns at most n entries for n surviving runs, and
\* exactly n minus the number of positions a merge invalidated.
C12_NonIncrease ==
    pc = "done" =>
        LET n == Len(frames_ocr_res)
            invalidated == SeqToSet(sub_invalid_keys)
        IN  /\ Len(extract_result) <= n
            /\ Len(extract_result) = n - Cardinality(invalidated)
            /\ Len(sub_invalid_keys) = Cardinality(invalidated)

\* C12 witness: three or more runs went in, a merge happened and two or
\* more entries came out
C12_Witness ==
    /\ pc = "done"
    /\ Len(frames_ocr_res) >= 3
    /\ Len(sub_invalid_keys) >= 1
    /\ Len(extract_result) >= 2

(***************************************************************************)
(* The scan loop of get_key_frames, step by step.                          *)
(***************************************************************************)
\* this step is get_key_frames up to its loop
ScanStart == pc = "get_key_frames" /\ pc' = "scan"

\* this step leaves the loop of get_key_frames
ScanExit == pc = "scan" /\ pc' = "run_ocr"

\* C13: for every range with endIdx > startIdx >= 0 the scan starts with
\* cur = startIdx, next = startIdx + 1 and w = min(B, endIdx - startIdx - 1),
\* and no index below startIdx is fetched in a batch or placed in a run.
C13_ScanInitialisation ==
    [][/\ (ScanStart /\ end_idx > start_idx) =>
              /\ cur_idx' = start_idx
              /\ next_idx' = start_idx + 1
              /\ batch_size' = Min(self_batch_size, end_idx - start_idx - 1)
       /\ (ScanIteration /\ ValidRange) =>
              /\ \A i \in SeqToSet(Batch) : i >= start_idx
              /\ \A i \in SeqToSet(AllIndices(duplicate_frames')) : i >= start_idx]_vars

\* C14: every iteration fetches a batch [next, next+w) with w >= 1 and
\* next + w <= endIdx, and the loop is left with next = endIdx.
C14_WindowClamp ==
    [][/\ (ScanIteration /\ ValidRange) =>
              /\ batch_size >= 1
              /\ next_idx + batch_size <= end_idx
       /\ (ScanExit /\ ValidRange) => next_idx = end_idx]_vars

\* C15: an iteration whose batch holds only duplicates appends exactly
\* next..next+w-1 to cur's run and sets next to next + w; cur, the reference
\* in use, the stale state, the key frame image already captured for cur
\* and all other runs stay as they are.
C15_FastPath ==
    [][(ScanIteration /\ ValidRange /\ Distinct = <<>>) =>
        /\ RunVal(duplicate_frames', cur_idx) =
               RunVal(duplicate_frames, cur_idx) \o Range(next_idx, next_idx + batch_size)
        /\ next_idx' = next_idx + batch_size
        /\ cur_idx' = cur_idx
        /\ cur_frame' = RefFrame
        /\ is_cur_idx_change' = FALSE
        /\ Len(key_frames') >= Len(key_frames)
        /\ \A r \in 1..Len(key_frames) : key_frames'[r] = key_frames[r]
        /\ DictKeys(duplicate_frames') \in
               {DictKeys(duplicate_frames), Append(DictKeys(duplicate_frames), cur_idx)}
        /\ \A r \in 1..Len(duplicate_frames) :
               duplicate_frames[r].key # cur_idx =>
                   duplicate_frames'[r] = duplicate_frames[r]]_vars

\* C15 witness: the last two iterations took the fast path for a reference
\* that is not the first one, so another run exists and cur's run grew twice
C15_Witness ==
    /\ pc = "scan" /\ ValidRange
    /\ ~is_cur_idx_change
    /\ Len(duplicate_frames) >= 2
    /\ HasKey(key_frames, cur_idx)
    /\ Len(RunVal(duplicate_frames, cur_idx)) >= 2
    /\ next_idx = cur_idx + 1 + Len(RunVal(duplicate_frames, cur_idx))

\* C16: every batch comparison uses the background-suppressed crop of frame
\* cur as its reference; the reference is recomputed in the first iteration
\* and in the iteration after each change of cur, and in no other.
C16_ReferenceConsistent ==
    [][/\ ScanStart => is_cur_idx_change'
       /\ ScanIteration =>
              /\ RefFrame = remove_bg(Crop(vr[cur_idx]))
              /\ cur_frame' = remove_bg(Crop(vr[cur_idx]))
              /\ is_cur_idx_change' <=> (cur_idx' # cur_idx)]_vars

\* C16 witness: cur has changed, the stored reference is that of another
\* frame image, and one more iteration is due
C16_Witness ==
    /\ pc = "scan" /\ ScanGuard
    /\ is_cur_idx_change
    /\ cur_idx # start_idx
    /\ Len(duplicate_frames) >= 1
    /\ cur_frame # remove_bg(Crop(vr[cur_idx]))

(***************************************************************************)
(* The sweep of get_subtitles, step by step.                               *)
(***************************************************************************)
\* this step is an iteration of the sweep
SweepIteration ==
    pc = "sweep" /\ pc' = "sweep" /\ sub_next_idx < Len(frames_ocr_res)

\* the latest position before nextPos that no merge has invalidated
Representative ==
    MaxOf({p \in 0..(sub_next_idx - 1) : p \notin SeqToSet(sub_invalid_keys)})

\* C17: the sweep compares each position nextPos with the latest position
\* not merged away; it merges iff the ratio is strictly greater than the
\* threshold, keeping curPos, and otherwise makes nextPos the new curPos; a
\* merge appends the run of nextPos to the run of curPos and touches no
\* other run; the output entries are, in input order, one per group of
\* consecutive positions, and every position is in exactly one group.
C17_SweepRule ==
    /\ [][SweepIteration =>
            LET r == calc_str_similar(frames_ocr_res[sub_cur_idx + 1],
                                      frames_ocr_res[sub_next_idx + 1])
                above == r[1] * StrSimilarDen > StrSimilarNum * r[2]
            IN  /\ sub_cur_idx = Representative
                /\ sub_next_idx' = sub_next_idx + 1
                /\ above =>
                       /\ sub_cur_idx' = sub_cur_idx
                       /\ sub_invalid_keys' = Append(sub_invalid_keys, sub_next_idx)
                       /\ DictKeys(duplicate_frames') = DictKeys(duplicate_frames)
                       /\ \A q \in 1..Len(duplicate_frames) :
                              duplicate_frames'[q].val =
                                  IF q = sub_cur_idx + 1
                                  THEN duplicate_frames[q].val
                                           \o duplicate_frames[sub_next_idx + 1].val
                                  ELSE duplicate_frames[q].val
                /\ ~above =>
                       /\ sub_cur_idx' = sub_next_idx
                       /\ sub_invalid_keys' = sub_invalid_keys
                       /\ duplicate_frames' = duplicate_frames]_vars
    /\ [](pc = "done" =>
            /\ Len(extract_result) = Len(OutputPositions)
            /\ \A j \in 1..Len(extract_result) :
                   extract_result[j].key = duplicate_frames[OutputPositions[j] + 1].key
            /\ \A q \in 0..(Len(duplicate_frames) - 1) :
                   Cardinality({j \in 1..Len(OutputPositions) :
                                    q \in MergeGroup(OutputPositions[j])}) = 1)

\* C17 witness: position p + 1 was merged into p, and position p + 2, whose
\* ratio with p is the threshold itself, began an entry of its own
C17_Witness ==
    /\ pc = "done"
    /\ \E p \in 0..(Len(frames_ocr_res) - 3) :
           LET r == calc_str_similar(frames_ocr_res[p + 1], frames_ocr_res[p + 3])
           IN  /\ p \notin SeqToSet(sub_invalid_keys)
               /\ p + 1 \in SeqToSet(sub_invalid_keys)
               /\ p + 2 \notin SeqToSet(sub_invalid_keys)
               /\ r[1] * StrSimilarDen = StrSimilarNum * r[2]
               /\ \E j \in 1..(Len(extract_result) - 1) :
                      /\ extract_result[j].text = frames_ocr_res[p + 1]
                      /\ extract_result[j + 1].text = frames_ocr_res[p + 3]

\* the frame indices that give the start and the end time of output entry j
StartFrame(j) == duplicate_frames[OutputPositions[j] + 1].val[1]
EndFrame(j) ==
    LET v == duplicate_frames[OutputPositions[j] + 1].val IN v[Len(v)]

\* C18: in the output of the pipeline the frame index of an entry's end
\* time is strictly smaller than the frame index of the next entry's start
\* time.
C18_NonOverlapping ==
    pc = "done" =>
        \A j \in 1..(Len(extract_result) - 1) : EndFrame(j) < StartFrame(j + 1)

====
